---- MODULE Spec2Model ----
(***************************************************************************)
(* Model of GoogleOfflineAccess (src/src/index.ts): the OAuth2 offline     *)
(* access helper that caches an access token and a refresh token in the    *)
(* auth state file and renews the access token when it is about to expire. *)
(*                                                                         *)
(* A JavaScript object is a function from the names of the properties it   *)
(* defines to their values; a property that is undefined is not in the     *)
(* DOMAIN.  An async method is one action per synchronous segment: the     *)
(* code up to its await, and the code that runs when the awaited promise   *)
(* settles.  The OAuth2Client of google-auth-library and the file system   *)
(* are the environment.  The client secret file is taken to be present and *)
(* well formed, so createAuthClient() always succeeds.                     *)
(***************************************************************************)
EXTENDS Integers, Sequences, FiniteSets, TLC

VARIABLES this, now, dirExists, file, calls, lastWriter

vars == <<this, now, dirExists, file, calls, lastWriter>>

(***************************************************************************)
(* Bounds of the model.                                                    *)
(***************************************************************************)
\* number of calls of the manager that may be in progress at once
MaxCalls == 2
\* the clock stops after this many milliseconds
MaxNow == 2

Calls == 1..MaxCalls

(***************************************************************************)
(* Program constants.                                                      *)
(***************************************************************************)
\* 300e3: the safety margin of the freshness test, in milliseconds
ExpiryMargin == 300000
\* 60e3: milliseconds per minute, in the "still valid" log message
MsPerMinute == 60000

(***************************************************************************)
(* Values of the environment.                                              *)
(***************************************************************************)
\* the value of options.defaultRefreshToken / GOOGLE_REFRESH_TOKEN, when set
DefaultRefreshTokens == {"RT0"}
\* refresh tokens the token endpoint grants on a code exchange
GrantedRefreshTokens == {"RT1"}
\* what the token endpoint issues: an access token and its lifetime, from
\* which the OAuth2Client computes expiry_date = Date.now() + expires_in
Issued ==
    { [access_token |-> "AT1", expires_in |-> 1],
      [access_token |-> "AT2", expires_in |-> ExpiryMargin + 1] }

(***************************************************************************)
(* JavaScript objects.                                                     *)
(***************************************************************************)
EmptyObject == [k \in {} |-> ""]

Has(o, k) == k \in DOMAIN o

\* o.k = v
SetProp(o, k, v) == [x \in DOMAIN o \cup {k} |-> IF x = k THEN v ELSE o[x]]

\* o.k = undefined
DelProp(o, k) == [x \in DOMAIN o \ {k} |-> o[x]]

\* o.k = src.k, where src.k may be undefined
CopyProp(o, k, src) == IF Has(src, k) THEN SetProp(o, k, src[k]) ELSE DelProp(o, k)

\* the truthiness of a string-valued property: undefined and "" are falsy
TruthyString(o, k) == Has(o, k) /\ o[k] # ""

\* the truthiness of a number-valued property: undefined and 0 are falsy
TruthyNumber(o, k) == Has(o, k) /\ o[k] # 0

(***************************************************************************)
(* The auth state file: absent, or a text that is JSON or is not.          *)
(***************************************************************************)
Absent == [kind |-> "absent"]
Malformed == [kind |-> "malformed"]

\* JSON.stringify(o, null, 2): undefined properties are left out
JSONstringify(o) == [kind |-> "json", doc |-> o]

\* JSON.parse(text), for a text that is JSON
JSONparse(text) == text.doc

\* a variant that takes a file it cannot parse for no file
ExistsSyncParsable(f) == f.kind = "json"

\* fs.existsSync(this.authStateFile), on the file f
ExistsSync(f) == f.kind # "absent"

(***************************************************************************)
(* The configuration: the fields of the GoogleOfflineAccess instance that  *)
(* the constructor sets.  authStateFile is TRUE for a path and FALSE for   *)
(* the value false that disables caching.                                  *)
(***************************************************************************)
Configurations ==
    { [authStateFile |-> a] : a \in BOOLEAN }
    \cup { [authStateFile |-> a, defaultRefreshToken |-> r] :
             a \in BOOLEAN, r \in DefaultRefreshTokens }

\* a variant without the test, as before authStateFile could be false
AuthStateFileAlwaysSet == TRUE

\* the test "this.authStateFile" that guards every use of the file
AuthStateFileSet == this.authStateFile

(***************************************************************************)
(* The OAuth2Client, as far as the manager uses it.  A promise it returns  *)
(* resolves with a response or rejects with an error.                      *)
(***************************************************************************)
\* the credentials the token endpoint issues at time t
IssuedAt(t) ==
    { [access_token |-> g.access_token, expiry_date |-> t + g.expires_in,
       token_type |-> "Bearer"] : g \in Issued }

\* what refreshAccessToken() resolves with at time t
RefreshResponses(t) == { [credentials |-> c] : c \in IssuedAt(t) }

\* what getToken(code) resolves with at time t: the refresh token is granted
\* or not
TokenResponses(t) ==
    { [tokens |-> c] : c \in IssuedAt(t) }
    \cup { [tokens |-> SetProp(c, "refresh_token", g)] :
             c \in IssuedAt(t), g \in GrantedRefreshTokens }

\* what either promise rejects with
Rejection == [error |-> "invalid_grant"]

(***************************************************************************)
(* The steps of getAuthenticatedAuthClient().                              *)
(***************************************************************************)
\* const credentials = {}; if (this.defaultRefreshToken) credentials.refresh_token = ...
SeedCredentials(t) ==
    IF TruthyString(t, "defaultRefreshToken")
    THEN [refresh_token |-> t.defaultRefreshToken]
    ELSE EmptyObject

\* a variant that leaves a seeded refresh token in place
ReadAuthStateKeepsDefault(credentials, token) ==
    LET read == CopyProp(CopyProp(credentials, "access_token", token),
                         "expiry_date", token)
    IN  IF Has(credentials, "refresh_token")
        THEN read
        ELSE CopyProp(read, "refresh_token", token)

\* a variant that takes a refresh token only from a token that has one
ReadAuthStateIfPresent(credentials, token) ==
    LET read == CopyProp(CopyProp(credentials, "access_token", token),
                         "expiry_date", token)
    IN  IF Has(token, "refresh_token")
        THEN SetProp(read, "refresh_token", token.refresh_token)
        ELSE read

\* credentials.access_token = token.access_token, and so for expiry_date and
\* refresh_token: each is assigned, also when the token has none
ReadAuthState(credentials, token) ==
    CopyProp(CopyProp(CopyProp(credentials, "access_token", token),
                      "expiry_date", token),
             "refresh_token", token)

\* a variant that also renews a credential set without a refresh token
NeedsRefreshOrNoToken(credentials, t) ==
    \/ ~TruthyNumber(credentials, "expiry_date")
    \/ t + ExpiryMargin > credentials.expiry_date
    \/ ~TruthyString(credentials, "refresh_token")

\* a variant with the comparison turned around
NeedsRefreshInverted(credentials, t) ==
    \/ ~TruthyNumber(credentials, "expiry_date")
    \/ t + ExpiryMargin < credentials.expiry_date

\* a variant that also renews a token that expires exactly at the margin
NeedsRefreshInclusive(credentials, t) ==
    \/ ~TruthyNumber(credentials, "expiry_date")
    \/ t + ExpiryMargin >= credentials.expiry_date

\* !credentials.expiry_date || Date.now() + 300e3 > credentials.expiry_date
NeedsRefresh(credentials, t) ==
    \/ ~TruthyNumber(credentials, "expiry_date")
    \/ t + ExpiryMargin > credentials.expiry_date

\* a variant without the check
NoRefreshTokenUnchecked(credentials) == FALSE

\* !credentials.refresh_token
NoRefreshToken(credentials) == ~TruthyString(credentials, "refresh_token")

\* a variant without the spread of credentials
NewCredentialsFromResponse(credentials, response) == response.credentials

\* a variant that takes the access token from the response and leaves the
\* expiry date as it was
NewCredentialsKeepsExpiry(credentials, response) ==
    CopyProp(credentials, "access_token", response.credentials)

\* a variant that takes the expiry date from the response and leaves the
\* access token as it was
NewCredentialsKeepsToken(credentials, response) ==
    CopyProp(credentials, "expiry_date", response.credentials)

\* { ...credentials, access_token: response.credentials.access_token,
\*   expiry_date: response.credentials.expiry_date }
NewCredentials(credentials, response) ==
    CopyProp(CopyProp(credentials, "access_token", response.credentials),
             "expiry_date", response.credentials)

\* a variant that logs the same message whether an expiry date was found or not
RenewMessageAlwaysExpired(credentials) == [text |-> "Token expired, renewing..."]

\* the message logged on the refresh path
RenewMessage(credentials) ==
    IF TruthyNumber(credentials, "expiry_date")
    THEN [text |-> "Token expired, renewing..."]
    ELSE [text |-> "No token found, getting new one..."]

\* the message logged on the reuse path
ValidMessage(credentials, t) ==
    [text |-> "Token is still valid for N minutes",
     minutes |-> (credentials.expiry_date - t) \div MsPerMinute]

(***************************************************************************)
(* A call of the manager in progress or just completed.  Besides the       *)
(* method's local variable credentials and the credentials installed on    *)
(* its authClient, a call records what it did to its collaborators: what   *)
(* the awaited promise settled with, the log messages, and how often it    *)
(* called existsSync, readFileSync, mkdirSync, writeFileSync,              *)
(* refreshAccessToken and getToken.                                        *)
(***************************************************************************)
IdleCall ==
    [op |-> "none", pc |-> "idle", error |-> "",
     credentials |-> EmptyObject, client |-> EmptyObject,
     response |-> EmptyObject,
     log |-> <<>>, nExists |-> 0, nRead |-> 0, nMkdir |-> 0, nWrite |-> 0,
     nRefresh |-> 0, nGetToken |-> 0]

InProgress(c) == c.pc \in {"awaitRefresh", "awaitGetToken"}

Completed(c) == c.pc \in {"returned", "threw"}

Init ==
    /\ this \in Configurations
    /\ now = 0
    /\ \E fs \in {<<FALSE, Absent>>, <<TRUE, Absent>>, <<TRUE, Malformed>>} :
          /\ dirExists = fs[1]
          /\ file = fs[2]
    /\ calls = [i \in Calls |-> IdleCall]
    /\ lastWriter = 0

\* The caller takes the result of a completed call before it makes a new
\* call and before the clock advances: a completed call is only a record of
\* what the call did, and nothing the manager does reads it.  So the clock
\* of a call completed in its first segment is the clock it ran at, and two
\* completed calls are calls that were in progress at the same time.
ResultsTaken == \A j \in Calls : ~Completed(calls[j])

\* Date.now() advances
Tick ==
    /\ now < MaxNow
    /\ ResultsTaken
    /\ now' = now + 1
    /\ UNCHANGED <<this, dirExists, file, calls, lastWriter>>

(***************************************************************************)
(* getAuthenticatedAuthClient(), lines 110-136 and 149-157: from the call  *)
(* to the await of refreshAccessToken(), to the return of the reuse path,  *)
(* or to a throw.                                                          *)
(***************************************************************************)
\* the call after its first segment, made at time t on the file f
GetAuthenticatedAuthClientSegment(t, f) ==
    LET seeded == SeedCredentials(this)
        checked == AuthStateFileSet
        exists == checked /\ ExistsSync(f)
        begun == [IdleCall EXCEPT !.op = "getAuthenticatedAuthClient",
                                  !.nExists = IF checked THEN 1 ELSE 0,
                                  !.nRead = IF exists THEN 1 ELSE 0]
    IN  IF exists /\ f.kind = "malformed"
        THEN [begun EXCEPT !.pc = "threw", !.error = "SyntaxError"]
        ELSE
          LET credentials == IF exists THEN ReadAuthState(seeded, JSONparse(f))
                                       ELSE seeded
          IN  IF NeedsRefresh(credentials, t)
              THEN IF NoRefreshToken(credentials)
                   THEN [begun EXCEPT !.pc = "threw", !.error = "NoRefreshToken",
                                      !.credentials = credentials,
                                      !.log = <<RenewMessage(credentials)>>]
                   ELSE [begun EXCEPT !.pc = "awaitRefresh",
                                      !.credentials = credentials,
                                      !.client = credentials,
                                      !.nRefresh = 1,
                                      !.log = <<RenewMessage(credentials)>>]
              ELSE [begun EXCEPT !.pc = "returned",
                                 !.credentials = credentials,
                                 !.client = credentials,
                                 !.log = <<ValidMessage(credentials, t)>>]

GetAuthenticatedAuthClient(i) ==
    /\ calls[i].pc = "idle"
    /\ ResultsTaken
    /\ calls' = [calls EXCEPT ![i] = GetAuthenticatedAuthClientSegment(now, file)]
    /\ UNCHANGED <<this, now, dirExists, file, lastWriter>>

\* lines 137-148 and 157: refreshAccessToken() resolved with the response
RefreshResolved(i, response) ==
    /\ calls[i].pc = "awaitRefresh"
    /\ LET newCredentials == NewCredentials(calls[i].credentials, response)
           got == [calls[i] EXCEPT !.response = response]
       IN  IF ~AuthStateFileSet
           THEN /\ calls' = [calls EXCEPT ![i] =
                               [got EXCEPT !.pc = "returned", !.client = newCredentials]]
                /\ UNCHANGED <<file, lastWriter>>
           ELSE IF dirExists
           THEN /\ file' = JSONstringify(newCredentials)
                /\ lastWriter' = i
                /\ calls' = [calls EXCEPT ![i] =
                               [got EXCEPT !.pc = "returned", !.client = newCredentials,
                                           !.nWrite = 1]]
           ELSE \* writeFileSync throws: no such directory
                /\ calls' = [calls EXCEPT ![i] =
                               [got EXCEPT !.pc = "threw", !.error = "ENOENT"]]
                /\ UNCHANGED <<file, lastWriter>>
    /\ UNCHANGED <<this, now, dirExists>>

\* a variant that catches the error and returns
RejectedSwallowed(call) ==
    [call EXCEPT !.response = Rejection, !.pc = "returned"]

\* the call when the promise it awaits rejects: the method has no catch, and
\* rejects with the same error
Rejected(call) ==
    [call EXCEPT !.response = Rejection, !.pc = "threw", !.error = "UpstreamError"]

\* line 136: refreshAccessToken() rejected
RefreshRejected(i) ==
    /\ calls[i].pc = "awaitRefresh"
    /\ calls' = [calls EXCEPT ![i] = Rejected(calls[i])]
    /\ UNCHANGED <<this, now, dirExists, file, lastWriter>>

(***************************************************************************)
(* login(code)                                                             *)
(***************************************************************************)
\* lines 187-188: up to the await of getToken(code)
Login(i) ==
    /\ calls[i].pc = "idle"
    /\ ResultsTaken
    /\ calls' = [calls EXCEPT ![i] =
                   [IdleCall EXCEPT !.op = "login", !.pc = "awaitGetToken",
                                    !.nGetToken = 1]]
    /\ UNCHANGED <<this, now, dirExists, file, lastWriter>>

\* a variant that keeps the access token and its expiry only
LoginCredentialsAccessOnly(response) == DelProp(response.tokens, "refresh_token")

\* const credentials = response.tokens
LoginCredentials(response) == response.tokens

\* lines 189-194: getToken(code) resolved with the response
GetTokenResolved(i, response) ==
    /\ calls[i].pc = "awaitGetToken"
    /\ LET credentials == LoginCredentials(response)
           got == [calls[i] EXCEPT !.response = response,
                                   !.credentials = credentials,
                                   !.pc = "returned"]
       IN  IF AuthStateFileSet
           THEN \* mkdirSync(dirname, { recursive: true }), then writeFileSync
                /\ dirExists' = TRUE
                /\ file' = JSONstringify(credentials)
                /\ lastWriter' = i
                /\ calls' = [calls EXCEPT ![i] = [got EXCEPT !.nMkdir = 1, !.nWrite = 1]]
           ELSE /\ calls' = [calls EXCEPT ![i] = got]
                /\ UNCHANGED <<dirExists, file, lastWriter>>
    /\ UNCHANGED <<this, now>>

\* line 188: getToken(code) rejected
GetTokenRejected(i) ==
    /\ calls[i].pc = "awaitGetToken"
    /\ calls' = [calls EXCEPT ![i] = Rejected(calls[i])]
    /\ UNCHANGED <<this, now, dirExists, file, lastWriter>>

\* the caller takes the result of a completed call
Return(i) ==
    /\ Completed(calls[i])
    /\ calls' = [calls EXCEPT ![i] = IdleCall]
    /\ lastWriter' = IF lastWriter = i THEN 0 ELSE lastWriter
    /\ UNCHANGED <<this, now, dirExists, file>>

Next ==
    \/ Tick
    \/ \E i \in Calls : GetAuthenticatedAuthClient(i)
    \/ \E i \in Calls : \E response \in RefreshResponses(now) : RefreshResolved(i, response)
    \/ \E i \in Calls : RefreshRejected(i)
    \/ \E i \in Calls : Login(i)
    \/ \E i \in Calls : \E response \in TokenResponses(now) : GetTokenResolved(i, response)
    \/ \E i \in Calls : GetTokenRejected(i)
    \/ \E i \in Calls : Return(i)

Spec == Init /\ [][Next]_vars

(***************************************************************************)
(* The same manager where a later consent grants another refresh token     *)
(* than the first did.                                                     *)
(***************************************************************************)
\* the refresh tokens a later code exchange grants
RegrantedRefreshTokens == {"RT2"}

\* what getToken(code) resolves with at time t when it grants one of them
RegrantResponses(t) ==
    { [tokens |-> SetProp(c, "refresh_token", g)] :
        c \in IssuedAt(t), g \in RegrantedRefreshTokens }

NextRegrant ==
    \/ Next
    \/ \E i \in Calls : \E response \in RegrantResponses(now) : GetTokenResolved(i, response)

SpecRegrant == Init /\ [][NextRegrant]_vars

(***************************************************************************)
(* Properties.                                                             *)
(***************************************************************************)
CredentialFields == {"access_token", "expiry_date", "refresh_token"}

\* the objects a and b define the same properties among ks, with the same values
SameProps(a, b, ks) ==
    \A k \in ks : /\ Has(a, k) <=> Has(b, k)
                  /\ Has(a, k) => a[k] = b[k]

\* the step is the first segment of a getAuthenticatedAuthClient() as call i
StartsGetAuthenticatedAuthClient(i) ==
    /\ calls[i].pc = "idle"
    /\ calls'[i].op = "getAuthenticatedAuthClient"

\* caching is on and the auth state file holds a JSON document
StoreHasDocument == this.authStateFile /\ file.kind = "json"

\* caching is on and the auth state file is not JSON
StoreIsMalformed == this.authStateFile /\ file.kind = "malformed"

\* C1: a call that finds in the store an expiry_date more than 300000 ms
\* after the current time calls no refresh, writes nothing, and returns a
\* client holding exactly the access_token, expiry_date and refresh_token
\* of the store.
C1_FreshTokenIsReused ==
    [][\A i \in Calls :
         ( /\ StartsGetAuthenticatedAuthClient(i)
           /\ StoreHasDocument
           /\ Has(file.doc, "expiry_date")
           /\ file.doc.expiry_date > now + 300000 )
         => /\ calls'[i].pc = "returned"
            /\ calls'[i].nRefresh = 0
            /\ calls'[i].nWrite = 0
            /\ file' = file
            /\ DOMAIN calls'[i].client \subseteq CredentialFields
            /\ SameProps(calls'[i].client, file.doc, CredentialFields)]_vars

\* a call has returned a client with a token that expires more than 300000 ms
\* from now, without a refresh
C1_Witness ==
    \E i \in Calls :
        /\ calls[i].op = "getAuthenticatedAuthClient"
        /\ calls[i].pc = "returned"
        /\ calls[i].nRefresh = 0
        /\ StoreHasDocument
        /\ Has(calls[i].client, "expiry_date")
        /\ calls[i].client.expiry_date > now + 300000
        /\ Has(calls[i].client, "refresh_token")
        /\ SameProps(calls[i].client, file.doc, CredentialFields)

\* C2 as claimed: a credential set whose expiry_date is undefined or at most
\* 300000 ms after the current time is refreshed with exactly one
\* refreshAccessToken call when it has a refresh token, and a token is reused
\* only when the current time plus 300000 ms is strictly before expiry_date.
C2_AsClaimed ==
    [][\A i \in Calls :
         (StartsGetAuthenticatedAuthClient(i) /\ ~StoreIsMalformed)
         => LET c == calls'[i].credentials
            IN  /\ ( /\ ~Has(c, "expiry_date") \/ c.expiry_date <= now + 300000
                     /\ TruthyString(c, "refresh_token") )
                   => calls'[i].nRefresh = 1
                /\ (calls'[i].pc = "returned")
                   => (Has(c, "expiry_date") /\ now + 300000 < c.expiry_date)]_vars

\* C2: a credential set whose expiry_date is undefined or less than 300000 ms
\* after the current time is refreshed with exactly one refreshAccessToken
\* call when it has a refresh token; a token whose expiry_date is 300000 ms or
\* more after the current time, exactly 300000 ms included, is reused
\* without a refresh.
C2_RefreshUnlessMarginLeft ==
    [][\A i \in Calls :
         /\ (StartsGetAuthenticatedAuthClient(i) /\ ~StoreIsMalformed)
            => LET c == calls'[i].credentials
               IN  /\ ( /\ ~Has(c, "expiry_date") \/ c.expiry_date < now + 300000
                        /\ TruthyString(c, "refresh_token") )
                      => (calls'[i].pc = "awaitRefresh" /\ calls'[i].nRefresh = 1)
                   /\ (Has(c, "expiry_date") /\ c.expiry_date >= now + 300000)
                      => (calls'[i].pc = "returned" /\ calls'[i].nRefresh = 0)
         \* the rest of the call makes no further refresh call
         /\ InProgress(calls[i]) => calls'[i].nRefresh = calls[i].nRefresh]_vars

\* a call has reused, without a refresh, a token that expires exactly
\* 300000 ms from now
C2_Witness ==
    \E i \in Calls :
        /\ calls[i].op = "getAuthenticatedAuthClient"
        /\ calls[i].pc = "returned"
        /\ calls[i].nRefresh = 0
        /\ TruthyString(calls[i].credentials, "refresh_token")
        /\ Has(calls[i].credentials, "expiry_date")
        /\ calls[i].credentials.expiry_date = now + 300000

\* the store holds an expiry_date that the freshness test accepts at the
\* current time
StoredTokenFresh ==
    /\ StoreHasDocument
    /\ TruthyNumber(file.doc, "expiry_date")
    /\ now + 300000 <= file.doc.expiry_date

\* the store supplies a refresh token
StoredRefreshToken == StoreHasDocument /\ TruthyString(file.doc, "refresh_token")

\* C3: a call that needs a refresh while neither the store nor the
\* configured default supplies a refresh token throws the missing refresh
\* token error, calls no refresh, writes nothing and leaves the store as it is.
C3_NoRefreshTokenFails ==
    [][\A i \in Calls :
         ( /\ StartsGetAuthenticatedAuthClient(i)
           /\ ~StoreIsMalformed
           /\ ~StoredTokenFresh
           /\ ~StoredRefreshToken
           /\ ~TruthyString(this, "defaultRefreshToken") )
         => /\ calls'[i].pc = "threw"
            /\ calls'[i].error = "NoRefreshToken"
            /\ calls'[i].nRefresh = 0
            /\ calls'[i].nWrite = 0
            /\ file' = file
            /\ dirExists' = dirExists]_vars

\* a call has thrown the missing refresh token error on a store that holds a
\* stale token and no refresh token, with no default configured
C3_Witness ==
    \E i \in Calls :
        /\ calls[i].op = "getAuthenticatedAuthClient"
        /\ calls[i].pc = "threw"
        /\ calls[i].error = "NoRefreshToken"
        /\ calls[i].nRefresh = 0
        /\ ~TruthyString(this, "defaultRefreshToken")
        /\ StoreHasDocument
        /\ ~StoredTokenFresh
        /\ ~StoredRefreshToken

\* C4 as claimed: with a default refresh token configured, a call that needs
\* a refresh where the store supplies no refresh token (the file is absent,
\* or holds a document without refresh_token) refreshes with the default
\* token and does not throw the missing refresh token error.
C4_AsClaimed ==
    [][\A i \in Calls :
         ( /\ StartsGetAuthenticatedAuthClient(i)
           /\ ~StoreIsMalformed
           /\ ~StoredTokenFresh
           /\ ~StoredRefreshToken
           /\ TruthyString(this, "defaultRefreshToken") )
         => /\ calls'[i].error # "NoRefreshToken"
            /\ calls'[i].pc = "awaitRefresh"
            /\ calls'[i].nRefresh = 1
            /\ Has(calls'[i].client, "refresh_token")
            /\ calls'[i].client.refresh_token = this.defaultRefreshToken]_vars

\* the step is the second segment of a getAuthenticatedAuthClient() as call
\* i, and the call returns
ReturnsRefreshed(i) ==
    /\ calls[i].pc = "awaitRefresh"
    /\ calls'[i].pc = "returned"

\* C5: when a call returns from a refresh with caching on, the store holds
\* the refresh_token that was installed on the client before the refresh and
\* the access_token and expiry_date of the refresh response, and the
\* returned client holds the same credential set.
C5_RefreshKeepsRefreshToken ==
    [][\A i \in Calls :
         (ReturnsRefreshed(i) /\ this.authStateFile)
         => /\ file'.kind = "json"
            /\ Has(file'.doc, "refresh_token")
            /\ file'.doc.refresh_token = calls[i].client.refresh_token
            /\ SameProps(file'.doc, calls'[i].response.credentials,
                         {"access_token", "expiry_date"})
            /\ calls'[i].client = file'.doc]_vars

\* a call has returned from a refresh that replaced the stored access token,
\* and the store has the refresh token it had
C5_Witness ==
    \E i \in Calls :
        /\ calls[i].op = "getAuthenticatedAuthClient"
        /\ calls[i].pc = "returned"
        /\ calls[i].nRefresh = 1
        /\ calls[i].nWrite = 1
        /\ lastWriter = i
        /\ Has(calls[i].credentials, "access_token")
        /\ calls[i].credentials.access_token # file.doc.access_token
        /\ file.doc.refresh_token = calls[i].credentials.refresh_token

\* C6: when login(code) returns with caching on, the directory of the auth
\* state file exists and the file holds exactly the tokens of the exchange,
\* whatever it held before.
C6_LoginWritesTokens ==
    [][\A i \in Calls :
         (calls[i].pc = "awaitGetToken" /\ calls'[i].pc = "returned"
            /\ this.authStateFile)
         => /\ dirExists'
            /\ file'.kind = "json"
            /\ file'.doc = calls'[i].response.tokens]_vars

\* a login has returned and the store holds its tokens, a refresh token among
\* them
C6_Witness ==
    \E i \in Calls :
        /\ calls[i].op = "login"
        /\ calls[i].pc = "returned"
        /\ calls[i].nMkdir = 1
        /\ calls[i].nWrite = 1
        /\ lastWriter = i
        /\ StoreHasDocument
        /\ file.doc = calls[i].response.tokens
        /\ Has(file.doc, "refresh_token")

\* C7 as claimed: once the store holds a refresh_token, it holds one in every
\* later state.
C7_AsClaimed ==
    [][StoredRefreshToken => StoredRefreshToken']_vars

\* C8: with caching off, no call checks, reads, writes or creates anything in
\* the file system, and every getAuthenticatedAuthClient() starts from the
\* default refresh token alone: it refreshes with it, or throws the missing
\* refresh token error when there is none.
C8_NoFileWhenDisabled ==
    [][~this.authStateFile
       => /\ file' = file
          /\ dirExists' = dirExists
          /\ \A i \in Calls :
               /\ calls'[i].nExists = 0
               /\ calls'[i].nRead = 0
               /\ calls'[i].nMkdir = 0
               /\ calls'[i].nWrite = 0
               /\ StartsGetAuthenticatedAuthClient(i)
                  => IF TruthyString(this, "defaultRefreshToken")
                     THEN /\ calls'[i].pc = "awaitRefresh"
                          /\ calls'[i].nRefresh = 1
                          /\ calls'[i].client =
                               [refresh_token |-> this.defaultRefreshToken]
                     ELSE /\ calls'[i].pc = "threw"
                          /\ calls'[i].error = "NoRefreshToken"
                          /\ calls'[i].nRefresh = 0]_vars

\* with caching off and a file that is not JSON at the path, a call has
\* returned from a refresh
C8_Witness ==
    /\ ~this.authStateFile
    /\ file.kind = "malformed"
    /\ \E i \in Calls :
         /\ calls[i].op = "getAuthenticatedAuthClient"
         /\ calls[i].pc = "returned"
         /\ calls[i].nRefresh = 1
         /\ calls[i].nExists = 0
         /\ calls[i].nWrite = 0
         /\ Has(calls[i].client, "access_token")

\* the promise call i awaited has resolved with a response
Resolved(c) == Has(c.response, "credentials") \/ Has(c.response, "tokens")

\* C9: when the refresh or the exchange a call awaits fails, the call throws
\* that error after its one network call, writes nothing, and leaves the
\* store as it was; and a call writes the store only in the step in which
\* its refresh or exchange has succeeded.
C9_FailureWritesNothing ==
    [][\A i \in Calls :
         /\ (InProgress(calls[i]) /\ calls'[i].response = Rejection)
            => /\ calls'[i].pc = "threw"
               /\ calls'[i].error = "UpstreamError"
               /\ calls'[i].nRefresh + calls'[i].nGetToken = 1
               /\ calls'[i].nWrite = 0
               /\ calls'[i].nMkdir = 0
               /\ file' = file
               /\ dirExists' = dirExists
         /\ (calls'[i].nWrite > calls[i].nWrite)
            => (InProgress(calls[i]) /\ Resolved(calls'[i]))
         /\ (file' # file \/ dirExists' # dirExists)
            => \E j \in Calls : /\ InProgress(calls[j])
                                /\ Resolved(calls'[j])
                                /\ calls'[j].nWrite = 1]_vars

\* a refresh has failed on a store that holds a document, and the call threw
C9_Witness ==
    \E i \in Calls :
        /\ calls[i].op = "getAuthenticatedAuthClient"
        /\ calls[i].pc = "threw"
        /\ calls[i].response = Rejection
        /\ calls[i].nRefresh = 1
        /\ calls[i].nWrite = 0
        /\ StoreHasDocument

\* the document a call on the refresh path writes: the response's
\* access_token and expiry_date with the refresh_token the call started with
RefreshedDocument(c) ==
    [access_token |-> c.response.credentials.access_token,
     expiry_date |-> c.response.credentials.expiry_date,
     refresh_token |-> c.credentials.refresh_token]

\* call i has returned from a refresh
Refreshed(i) ==
    /\ calls[i].op = "getAuthenticatedAuthClient"
    /\ calls[i].pc = "returned"
    /\ calls[i].nRefresh = 1

\* C10: when two calls that ran concurrently have both returned from a
\* refresh, each has made its own refresh call and its own write, and the
\* store is the whole document of the one that wrote last: the access_token
\* and expiry_date of that call's response with that call's refresh_token.
C10_LastWriterWins ==
    \A i, j \in Calls :
        (i # j /\ this.authStateFile /\ Refreshed(i) /\ Refreshed(j))
        => /\ calls[i].nWrite = 1
           /\ calls[j].nWrite = 1
           /\ lastWriter = i => file = JSONstringify(RefreshedDocument(calls[i]))

\* two concurrent calls have returned from refreshes with different
\* responses, and the store holds the document of the one that wrote last
C10_Witness ==
    \E i, j \in Calls :
        /\ i # j
        /\ this.authStateFile
        /\ Refreshed(i)
        /\ Refreshed(j)
        /\ lastWriter = i
        /\ calls[i].response # calls[j].response
        /\ file.doc.access_token = calls[i].response.credentials.access_token
        /\ file.doc.access_token # calls[j].response.credentials.access_token

\* C11 as claimed: when a login and a call that refreshed a stored token
\* have both completed, having run at the same time, the store holds the
\* refresh_token the login obtained, also when it is another one than the
\* refreshing call had read from the store.
C11_AsClaimed ==
    \A i, j \in Calls :
        ( /\ this.authStateFile
          /\ calls[i].op = "login"
          /\ calls[i].pc = "returned"
          /\ Has(calls[i].response.tokens, "refresh_token")
          /\ Refreshed(j)
          /\ Has(calls[j].credentials, "access_token")
          /\ calls[j].credentials.refresh_token
               # calls[i].response.tokens.refresh_token )
        => /\ StoredRefreshToken
           /\ file.doc.refresh_token = calls[i].response.tokens.refresh_token

\* C12: with a default refresh token configured and a refresh_token in the
\* store, a call uses the stored one: it is the one on the client when the
\* refresh is called and when the call returns, and the one in the document
\* the call writes.
C12_StoredTokenFirst ==
    [][\A i \in Calls :
         /\ ( /\ StartsGetAuthenticatedAuthClient(i)
              /\ TruthyString(this, "defaultRefreshToken")
              /\ StoredRefreshToken )
            => /\ calls'[i].pc \in {"awaitRefresh", "returned"}
               /\ Has(calls'[i].credentials, "refresh_token")
               /\ calls'[i].credentials.refresh_token = file.doc.refresh_token
               /\ calls'[i].client = calls'[i].credentials
         /\ (ReturnsRefreshed(i) /\ this.authStateFile)
            => /\ Has(file'.doc, "refresh_token")
               /\ file'.doc.refresh_token = calls[i].credentials.refresh_token
               /\ calls'[i].client.refresh_token
                    = calls[i].credentials.refresh_token]_vars

\* with a default configured, a call has returned from a refresh with another
\* refresh token than the default, the one the store had and has
C12_Witness ==
    \E i \in Calls :
        /\ TruthyString(this, "defaultRefreshToken")
        /\ Refreshed(i)
        /\ lastWriter = i
        /\ calls[i].credentials.refresh_token # this.defaultRefreshToken
        /\ calls[i].client.refresh_token = calls[i].credentials.refresh_token
        /\ StoredRefreshToken
        /\ file.doc.refresh_token = calls[i].credentials.refresh_token

\* the text of the one message a call has logged fits what the call found
MessageFits(c) ==
    /\ Len(c.log) = 1
    /\ c.log[1].text =
         IF ~Has(c.credentials, "expiry_date")
         THEN "No token found, getting new one..."
         ELSE IF c.nRefresh = 1 \/ c.error = "NoRefreshToken"
         THEN "Token expired, renewing..."
         ELSE "Token is still valid for N minutes"

\* C13 as claimed: every completed getAuthenticatedAuthClient() has read the
\* store exactly once, written it at most once, and logged exactly one
\* message: no token found, token expired, or still valid.
C13_AsClaimed ==
    \A i \in Calls :
        (calls[i].op = "getAuthenticatedAuthClient" /\ Completed(calls[i]))
        => /\ calls[i].nRead = 1
           /\ calls[i].nWrite <= 1
           /\ MessageFits(calls[i])

\* the store holds an expiry_date
StoredExpiry == StoreHasDocument /\ TruthyNumber(file.doc, "expiry_date")

\* C13: a call checks for the store file once when caching is on and reads
\* it once when it is there, and not otherwise; it writes the store at most
\* once; and a call that does not fail on a malformed store file logs exactly
\* one message in its first segment: no token found when no expiry_date is
\* recorded, token expired when one is recorded and a refresh is needed,
\* still valid on the reuse path.  On a malformed store file it logs nothing.
C13_OneReadOneMessage ==
    [][\A i \in Calls :
         /\ StartsGetAuthenticatedAuthClient(i)
            => /\ calls'[i].nExists = IF this.authStateFile THEN 1 ELSE 0
               /\ calls'[i].nRead =
                    IF this.authStateFile /\ file.kind # "absent" THEN 1 ELSE 0
               /\ calls'[i].nWrite = 0
               /\ IF StoreIsMalformed
                  THEN calls'[i].log = <<>>
                  ELSE /\ Len(calls'[i].log) = 1
                       /\ calls'[i].log[1].text =
                            IF ~StoredExpiry
                            THEN "No token found, getting new one..."
                            ELSE IF ~StoredTokenFresh
                            THEN "Token expired, renewing..."
                            ELSE "Token is still valid for N minutes"
         /\ calls[i].pc = "awaitRefresh"
            => /\ calls'[i].nExists = calls[i].nExists
               /\ calls'[i].nRead = calls[i].nRead
               /\ calls'[i].nWrite <= 1
               /\ calls'[i].log = calls[i].log]_vars

\* a call that found no store file has returned from a refresh: it read no
\* file, wrote the store once and logged that no token was found
C13_Witness ==
    \E i \in Calls :
        /\ this.authStateFile
        /\ Refreshed(i)
        /\ calls[i].nExists = 1
        /\ calls[i].nRead = 0
        /\ calls[i].nWrite = 1
        /\ calls[i].log = <<[text |-> "No token found, getting new one..."]>>

\* what the promise a call awaited resolved with: the credentials of a
\* refresh, the tokens of an exchange
Payload(c) ==
    IF Has(c.response, "credentials") THEN c.response.credentials
                                      ELSE c.response.tokens

\* C14: in every state the store document has access_token and expiry_date
\* both or neither, and while the call that wrote it last is on record, the
\* two are those of the one response that call received.
C14_TokenAndExpiryTogether ==
    /\ file.kind = "json"
       => (Has(file.doc, "access_token") <=> Has(file.doc, "expiry_date"))
    /\ \A i \in Calls :
         lastWriter = i
         => /\ file.kind = "json"
            /\ Resolved(calls[i])
            /\ SameProps(file.doc, Payload(calls[i]),
                         {"access_token", "expiry_date"})

\* a refresh has replaced the access_token and the expiry_date of a stored
\* document, both by those of its response
C14_Witness ==
    \E i \in Calls :
        /\ Refreshed(i)
        /\ lastWriter = i
        /\ Has(calls[i].credentials, "access_token")
        /\ calls[i].credentials.access_token # file.doc.access_token
        /\ calls[i].credentials.expiry_date # file.doc.expiry_date
        /\ file.doc.access_token = calls[i].response.credentials.access_token
        /\ file.doc.expiry_date = calls[i].response.credentials.expiry_date

\* the step is the second segment of a getAuthenticatedAuthClient() as call
\* i, which found no auth state file and took the configured default, and
\* its refresh resolves
FirstRefreshResolves(i) ==
    /\ this.authStateFile
    /\ calls[i].pc = "awaitRefresh"
    /\ calls[i].nExists = 1
    /\ calls[i].nRead = 0
    /\ calls[i].credentials = [refresh_token |-> this.defaultRefreshToken]
    /\ Resolved(calls'[i])

\* C15 as claimed: a first call that finds no store file and has a default
\* refresh token refreshes with it and creates the store with the returned
\* access_token and expiry_date E and the default refresh_token; and a call
\* made at a time t with t + 300000 < E over that store calls no refresh,
\* writes nothing and logs floor((E - t) / 60000) minutes.
C15_AsClaimed ==
    [][\A i \in Calls :
         /\ FirstRefreshResolves(i)
            => /\ calls[i].client.refresh_token = this.defaultRefreshToken
               /\ calls'[i].pc = "returned"
               /\ file' = JSONstringify(
                    [access_token |-> calls'[i].response.credentials.access_token,
                     expiry_date |-> calls'[i].response.credentials.expiry_date,
                     refresh_token |-> this.defaultRefreshToken])
         /\ ( /\ StartsGetAuthenticatedAuthClient(i)
              /\ StoredExpiry
              /\ now + 300000 < file.doc.expiry_date )
            => /\ calls'[i].pc = "returned"
               /\ calls'[i].nRefresh = 0
               /\ calls'[i].nWrite = 0
               /\ file' = file
               /\ calls'[i].log =
                    << [text |-> "Token is still valid for N minutes",
                        minutes |-> (file.doc.expiry_date - now) \div 60000] >>]_vars

\* C16 as claimed: with caching on, every step in which the refresh of a
\* getAuthenticatedAuthClient() or the exchange of a login() resolves leaves
\* the directory of the store in existence and the store written by that
\* call, which returns, whether or not the directory existed before.
C16_AsClaimed ==
    [][\A i \in Calls :
         ( /\ this.authStateFile
           /\ InProgress(calls[i])
           /\ Resolved(calls'[i]) )
         => /\ dirExists'
            /\ calls'[i].pc = "returned"
            /\ calls'[i].nWrite = 1
            /\ lastWriter' = i
            /\ file'.kind = "json"
            /\ SameProps(file'.doc, Payload(calls'[i]),
                         {"access_token", "expiry_date"})]_vars

\* C17: a call that finds a malformed auth state file rejects with the parse
\* error in its first segment: it logs nothing, calls no refresh, writes
\* nothing and leaves the file as it is, with or without a default refresh
\* token.
C17_MalformedStoreFails ==
    [][\A i \in Calls :
         (StartsGetAuthenticatedAuthClient(i) /\ StoreIsMalformed)
         => /\ calls'[i].pc = "threw"
            /\ calls'[i].error = "SyntaxError"
            /\ calls'[i].nRead = 1
            /\ calls'[i].log = << >>
            /\ calls'[i].nRefresh = 0
            /\ calls'[i].nWrite = 0
            /\ file' = file
            /\ lastWriter' = lastWriter]_vars

\* a call has failed on a malformed file although a default refresh token is
\* configured
C17_Witness ==
    \E i \in Calls :
        /\ calls[i].op = "getAuthenticatedAuthClient"
        /\ calls[i].pc = "threw"
        /\ calls[i].error = "SyntaxError"
        /\ calls[i].log = << >>
        /\ calls[i].nRefresh = 0
        /\ StoreIsMalformed
        /\ TruthyString(this, "defaultRefreshToken")

\* the step is one in which a getAuthenticatedAuthClient() as call i returns,
\* from its first segment or from its second
ReturnsClient(i) ==
    /\ calls[i].pc \in {"idle", "awaitRefresh"}
    /\ calls'[i].op = "getAuthenticatedAuthClient"
    /\ calls'[i].pc = "returned"

\* C18: with caching on, whenever a getAuthenticatedAuthClient() returns, the
\* store holds a document, and the access_token, expiry_date and
\* refresh_token installed on the returned client are those of the store at
\* that moment, each present in both or in neither.
C18_ClientMatchesStore ==
    [][\A i \in Calls :
         (ReturnsClient(i) /\ this.authStateFile)
         => /\ file'.kind = "json"
            /\ DOMAIN calls'[i].client \subseteq CredentialFields
            /\ SameProps(calls'[i].client, file'.doc, CredentialFields)]_vars

\* a call has returned, without a refresh, a client matching a store that
\* has no refresh token while a default refresh token is configured
C18_Witness ==
    \E i \in Calls :
        /\ calls[i].op = "getAuthenticatedAuthClient"
        /\ calls[i].pc = "returned"
        /\ calls[i].nRefresh = 0
        /\ StoreHasDocument
        /\ ~Has(file.doc, "refresh_token")
        /\ TruthyString(this, "defaultRefreshToken")
        /\ SameProps(calls[i].client, file.doc, CredentialFields)

\* C19: a call that finds in the store a token with the current time plus
\* 300000 ms not after its expiry_date, and no refresh token, returns without
\* a refresh and without the missing-refresh-token error, and the client it
\* returns has no refresh_token; so it is when no default refresh token is
\* configured either.
C19_FreshNeedsNoRefreshToken ==
    [][\A i \in Calls :
         ( /\ StartsGetAuthenticatedAuthClient(i)
           /\ StoredTokenFresh
           /\ ~StoredRefreshToken )
         => /\ calls'[i].pc = "returned"
            /\ calls'[i].error = ""
            /\ calls'[i].nRefresh = 0
            /\ ~TruthyString(calls'[i].client, "refresh_token")
            /\ SameProps(calls'[i].client, file.doc,
                         {"access_token", "expiry_date"})]_vars

\* a call has returned a client without a refresh token, where neither the
\* store nor the configuration has one
C19_Witness ==
    \E i \in Calls :
        /\ calls[i].op = "getAuthenticatedAuthClient"
        /\ calls[i].pc = "returned"
        /\ calls[i].nRefresh = 0
        /\ StoredTokenFresh
        /\ ~StoredRefreshToken
        /\ ~TruthyString(this, "defaultRefreshToken")
        /\ Has(calls[i].client, "access_token")
        /\ ~Has(calls[i].client, "refresh_token")

====
